---- MODULE Spec2Model ----
(***************************************************************************)
(* The morphing renderer of coffee-science (src/services/VoxelEngine.ts):  *)
(* the transition state machine, the instance pool and the per-frame       *)
(* animation loop.                                                         *)
(*                                                                         *)
(* Numbers.  The engine computes in IEEE doubles.  Every real quantity is  *)
(* kept here in thousandths (One == 1000 stands for 1.0), and a product by *)
(* a fraction is truncated toward zero (Scaled).  morphProgress only ever  *)
(* holds multiples of 0.015 clamped at 1, none of which is within 0.004 of *)
(* the thresholds 0.5 and 1 it is compared with, so the comparisons of the *)
(* state machine are exact.  Positions and scales are approximations of    *)
(* the doubles to 0.001.                                                   *)
(*                                                                         *)
(* An instance matrix is composed from dummy.position, the identity        *)
(* quaternion (dummy.quaternion is never written) and dummy.scale, and the *)
(* scale is always uniform and in [0, 1], so decompose() gives back the    *)
(* position and the scale that were composed: a matrix is kept as the pair *)
(* [pos, scale], scale being the common value of its three components.     *)
(***************************************************************************)
EXTENDS Integers, Sequences, FiniteSets, TLC

VARIABLES
    state,          \* VoxelEngine.state: "STABLE" or "REBUILDING"
    morphProgress,  \* VoxelEngine.morphProgress, in thousandths
    targetVoxels,   \* VoxelEngine.targetVoxels: sequence of particles
    instanceMesh,   \* VoxelEngine.instanceMesh: [alloc, gen, count, matrix,
                    \* color]; gen tells one InstancedMesh object from the next
    dummy,          \* VoxelEngine.dummy: its position and scale
    frameCount,     \* VoxelEngine.frameCount
    freshScale,     \* scale of the matrices of a new THREE.InstancedMesh
    appState,       \* last value handed to onStateChange (App's appState)
    voxelCount,     \* last value handed to onCountChange (App's voxelCount)
    events,         \* the listener calls made by the last operation, in order
    lastOp,         \* the last operation: "new", "tick", "transitionTo",
                    \* "cleanup", "adapt", "askAI", "response" or "loadChapter"
    requested,      \* the cloud passed to the most recent transitionTo call
    maxRequested,   \* largest |cloud| passed to any transitionTo call
    maxAccepted,    \* largest |cloud| of a call that was not rejected
    colorAtAccept,  \* slot colours just before the transition in flight
    sizeAtAccept,   \* |targetVoxels| just before the transition in flight
    ticksRebuilding,\* ticks run since the transition in flight was accepted
    calls,          \* number of transitionTo calls made
    idleTicks,      \* consecutive ticks run while STABLE
    animationId,    \* VoxelEngine.animationId: handle of the last frame asked
    scheduled,      \* handles of the frame callbacks the browser still holds
    mounted,        \* renderer.domElement is a child of the container
    disposed,       \* renderer.dispose() has run
    cleanups,       \* number of cleanup calls made
    thrown,         \* number of cleanup calls that ended in an exception
    currentChapterIndex, \* App's currentChapterIndex: 0..4, or -1 for the AI one
    aiChapter,      \* App's aiChapter: [set, generator, data], set FALSE for null
    isGenerating,   \* App's isGenerating
    pendingAI,      \* generateContent requests awaiting their response
    asks,           \* number of handleAskAI calls made
    alerts,         \* number of alert() calls made
    payload,        \* the last response received from the generative service
    vColor,         \* v.color of a payload entry, a string of characters
    adaptedColor,   \* the color field computed for it
    simParams,      \* simParams of the parametric App (src/unnamed/part_001)
    isOpen,         \* PromptModal's isOpen prop
    prompt,         \* PromptModal's prompt: "", " " (blank) or "text"
    isLoading,      \* PromptModal's isLoading
    closesOnSubmit, \* the parent closes the modal when onSubmit starts
    session,        \* number of times the modal has been opened
    inFlight,       \* the onSubmit calls not settled yet, by their number
    submits,        \* number of handleSubmit calls made
    map,            \* the Map a scene generator fills, in insertion order
    placed          \* the setBlock calls made on it, in order

vars == <<state, morphProgress, targetVoxels, instanceMesh, dummy, frameCount,
          freshScale, appState, voxelCount, events, lastOp, requested,
          maxRequested, maxAccepted, colorAtAccept, sizeAtAccept,
          ticksRebuilding,
          calls, idleTicks,
          animationId, scheduled, mounted, disposed, cleanups, thrown,
          currentChapterIndex, aiChapter, isGenerating, pendingAI, asks,
          alerts, payload, vColor, adaptedColor,
          simParams, isOpen, prompt, isLoading, closesOnSubmit, session,
          inFlight, submits, map, placed>>

engineVars == <<state, morphProgress, targetVoxels, instanceMesh, dummy>>

lifeVars == <<animationId, scheduled, mounted, disposed, cleanups, thrown>>

appVars == <<currentChapterIndex, aiChapter, isGenerating, pendingAI, asks,
             alerts, payload>>

adaptVars == <<vColor, adaptedColor>>

modalVars == <<isOpen, prompt, isLoading, closesOnSubmit, session, inFlight,
               submits>>

genVars == <<map, placed>>

\* what the engine and the chapter application never touch
sideVars == <<simParams, modalVars, genVars>>

\* what the parametric App, the modal and the generators never touch
coreVars == <<engineVars, frameCount, freshScale, appState, voxelCount,
              events, lastOp, requested, maxRequested, maxAccepted,
              colorAtAccept, sizeAtAccept, ticksRebuilding, calls, idleTicks,
              lifeVars, appVars, adaptVars>>

----------------------------------------------------------------------------
(* Bounds of the exploration *)

\* transitionTo calls made (first load and rejected calls included)
MaxCalls == 3

\* consecutive frames explored while the engine is STABLE
MaxIdle == 1

\* cleanup calls made
MaxCleanups == 2

\* handleAskAI calls made
MaxAsks == 2

\* prompts answered in the parametric App
MaxPrompts == 1

\* handleSubmit calls made in the modal, and times the modal is opened
MaxSubmits == 3
MaxSessions == 2

\* setBlock calls made on one Map
MaxPlacements == 3

\* transitionTo calls made on an engine that may be cleaned up
MaxLifeCalls == 2

----------------------------------------------------------------------------
(* Numbers *)

One == 1000

Min(a, b) == IF a <= b THEN a ELSE b
Max(a, b) == IF a >= b THEN a ELSE b
Abs(a) == IF a >= 0 THEN a ELSE -a

\* a * num / den, truncated toward zero
Scaled(a, num, den) ==
    IF a >= 0 THEN (a * num) \div den ELSE -(((-a) * num) \div den)

\* a smaller step per frame
MorphIncrementSlow == 15 - 1

\* this.morphProgress += 0.015
MorphIncrement == 15

\* this.morphProgress > 0.5
CrossfadeThreshold == 500

\* (tx - currentPos.x) * 0.1 and Vector3.lerp(v, 0.1): tenths
MoveRatio == 1

\* currentScale.lerp(new THREE.Vector3(0,0,0), 0.2): tenths
ShrinkRatio == 2

\* Math.sin(...) * 0.05, in thousandths
FloatAmplitude == 50

\* 2 * pi and pi in hundredths of a radian
TwoPi == 628
Pi == 314

\* THREE.Vector3.lerp / the position lerp: x += (t - x) * ratio / 10
Lerp(x, t, ratio) == x + Scaled(t - x, ratio, 10)

\* Math.sin of an angle given in hundredths of a radian, in thousandths
\* (Bhaskara's rational approximation, exact to 0.002)
HalfWave(a) == (16 * a * (Pi - a) * One) \div (5 * Pi * Pi - 4 * a * (Pi - a))
Sin(a) == LET r == a % TwoPi
          IN IF r < Pi THEN HalfWave(r) ELSE -HalfWave(r - Pi)

\* Math.sin(time + tx * 0.5) * 0.05 with time = frameCount * 0.01
IdleFloat(fc, tx) ==
    Scaled(Sin(fc + Scaled(tx, 1, 20)), FloatAmplitude, One)

----------------------------------------------------------------------------
(* Particles and clouds *)

Voxel(x, y, z, c) == [x |-> x, y |-> y, z |-> z, color |-> c]

\* COLORS.COFFEE_DARK, COLORS.WATER_STREAM, COLORS.FILTER
COFFEE_DARK == 4073251
WATER_STREAM == 2733814
FILTER == 16772275

\* colour of an instance while instanceColor holds nothing for it: the
\* material's (MeshStandardMaterial without a colour is white)
MaterialColor == 16777215

CloudEmpty == <<>>
CloudA == <<Voxel(2000, 1000, 0, COFFEE_DARK)>>
CloudB == <<Voxel(-1000, 3000, 1000, WATER_STREAM),
            Voxel(0, -2000, -3000, FILTER)>>

\* the clouds handed to transitionTo
Clouds == {CloudEmpty, CloudA, CloudB}

----------------------------------------------------------------------------
(* The instance pool *)

Matrix(p, s) == [pos |-> p, scale |-> s]

NoMesh == [alloc |-> FALSE, gen |-> 0, count |-> 0, matrix |-> <<>>,
           color |-> <<>>]

\* the state listener handed the wrong member of AppState on settling
StateEventShifted(s) ==
    [kind |-> "state",
     st |-> IF s = "STABLE" THEN "DISMANTLING" ELSE s,
     n |-> 0]

StateEvent(s) == [kind |-> "state", st |-> s, n |-> 0]
CountEvent(n) == [kind |-> "count", st |-> "", n |-> n]

\* updateMeshBufferSize: the old mesh is dropped, the new one has `count`
\* fresh matrices and no instanceColor.  What a fresh matrix holds is the
\* library's choice (all zeros, or the identity, by its version): the
\* position is the origin either way and the scale, 0 or 1, is freshScale,
\* chosen once in Init.  An instance without instanceColor is drawn in the
\* material's colour.
updateMeshBufferSize(count) ==
    [alloc |-> TRUE, gen |-> instanceMesh.gen + 1, count |-> count,
     matrix |-> [i \in 1..count |-> Matrix(<<0, 0, 0>>, freshScale)],
     color |-> [i \in 1..count |-> MaterialColor]]

\* updateMesh: a buffer of |data| instances, each placed on its particle
\* at scale 1 with the particle's colour
updateMesh(data) ==
    [updateMeshBufferSize(Len(data)) EXCEPT
        !.matrix = [i \in 1..Len(data) |->
                       Matrix(<<data[i].x, data[i].y, data[i].z>>, One)],
        !.color = [i \in 1..Len(data) |-> data[i].color]]

\* the dummy after updateMesh's forEach: left on the last particle
DummyAfterLoad(d, data) ==
    IF Len(data) = 0 THEN d
    ELSE LET v == data[Len(data)]
         IN Matrix(<<v.x, v.y, v.z>>, One)

----------------------------------------------------------------------------
(* transitionTo *)

\* the listeners' view after the calls `evs`: the value of the last call of
\* the given kind, or `old` when there is none
Delivered(evs, kind, old) ==
    LET idx == {i \in 1..Len(evs) : evs[i].kind = kind}
    IN IF idx = {} THEN old
       ELSE LET e == evs[CHOOSE i \in idx : \A j \in idx : j <= i]
            IN IF kind = "state" THEN e.st ELSE e.n

\* the early return left out
RejectsNever(st) == FALSE

\* if (this.state === AppState.REBUILDING) return;
Rejects(st) == st = "REBUILDING"

\* if (!this.instanceMesh || this.instanceMesh.count === 0)
PoolEmpty(mesh) == ~mesh.alloc \/ mesh.count = 0

\* loadInitialModel(data): the pool is rebuilt on the cloud itself
\* loadInitialModel taken to restart the morph
loadInitialModelRestart(data) ==
    /\ instanceMesh' = updateMesh(data)
    /\ dummy' = DummyAfterLoad(dummy, data)
    /\ targetVoxels' = data
    /\ state' = "STABLE"
    /\ morphProgress' = 0
    /\ events' = <<CountEvent(Len(data)), StateEvent("STABLE")>>

loadInitialModel(data) ==
    /\ instanceMesh' = updateMesh(data)
    /\ dummy' = DummyAfterLoad(dummy, data)
    /\ targetVoxels' = data
    /\ state' = "STABLE"
    /\ UNCHANGED morphProgress
    /\ events' = <<CountEvent(Len(data)), StateEvent("STABLE")>>

\* the buffer rebuilt at the size of every new cloud
GrownMeshExact(mesh, data) == updateMeshBufferSize(Len(data))

\* const maxCount = Math.max(count, targetData.length);
\* if (maxCount > count) this.updateMeshBufferSize(maxCount);
GrownMesh(mesh, data) ==
    LET maxCount == Max(mesh.count, Len(data))
    IN IF maxCount > mesh.count THEN updateMeshBufferSize(maxCount) ELSE mesh

\* morphProgress left as it is
RetargetKeepProgress(data) ==
    /\ targetVoxels' = data
    /\ UNCHANGED morphProgress
    /\ state' = "REBUILDING"
    /\ instanceMesh' = GrownMesh(instanceMesh, data)
    /\ UNCHANGED dummy
    /\ events' = <<StateEvent("REBUILDING"), CountEvent(Len(data))>>

\* the count listener left out
RetargetNoCount(data) ==
    /\ targetVoxels' = data
    /\ morphProgress' = 0
    /\ state' = "REBUILDING"
    /\ instanceMesh' = GrownMesh(instanceMesh, data)
    /\ UNCHANGED dummy
    /\ events' = <<StateEvent("REBUILDING")>>

\* the body of transitionTo past its two early returns
Retarget(data) ==
    /\ targetVoxels' = data
    /\ morphProgress' = 0
    /\ state' = "REBUILDING"
    /\ instanceMesh' = GrownMesh(instanceMesh, data)
    /\ UNCHANGED dummy
    /\ events' = <<StateEvent("REBUILDING"), CountEvent(Len(data))>>

transitionTo(data) ==
    /\ calls < MaxCalls
    /\ calls' = calls + 1
    /\ lastOp' = "transitionTo"
    /\ requested' = data
    /\ maxRequested' = Max(maxRequested, Len(data))
    /\ UNCHANGED <<frameCount, freshScale>>
    /\ UNCHANGED lifeVars
    /\ IF Rejects(state)
       THEN /\ UNCHANGED engineVars
            /\ events' = <<>>
            /\ UNCHANGED <<maxAccepted, colorAtAccept, sizeAtAccept,
                           ticksRebuilding, idleTicks>>
       ELSE /\ maxAccepted' = Max(maxAccepted, Len(data))
            /\ colorAtAccept' = instanceMesh.color
            /\ sizeAtAccept' = Len(targetVoxels)
            /\ ticksRebuilding' = 0
            /\ idleTicks' = 0
            /\ IF PoolEmpty(instanceMesh)
               THEN loadInitialModel(data)
               ELSE Retarget(data)
    /\ appState' = Delivered(events', "state", appState)
    /\ voxelCount' = Delivered(events', "count", voxelCount)

----------------------------------------------------------------------------
(* animate: one frame *)

\* the branch of the loop for a slot that has a target
MoveToTarget(cur, target, isMorphing, fc) ==
    LET ty == IF isMorphing THEN target.y
              ELSE target.y + IdleFloat(fc, target.x)
    IN Matrix(<<Lerp(cur.pos[1], target.x, MoveRatio),
                Lerp(cur.pos[2], ty, MoveRatio),
                Lerp(cur.pos[3], target.z, MoveRatio)>>,
              Lerp(cur.scale, One, MoveRatio))

\* the colour never written
CrossfadeNever(old, target, isMorphing, progress) == old

\* if (isMorphing && this.morphProgress > 0.5) setColorAt(i, target.color)
Crossfade(old, target, isMorphing, progress) ==
    IF isMorphing /\ progress > CrossfadeThreshold THEN target.color ELSE old

\* the scale lerped by 0.1 instead of 0.2
ScaleDownSlow(cur, d) == Matrix(d.pos, Lerp(cur.scale, 0, MoveRatio))

\* the branch for a slot without a target: only dummy.scale is written, so
\* the matrix is composed with the position the dummy was left with
ScaleDown(cur, d) == Matrix(d.pos, Lerp(cur.scale, 0, ShrinkRatio))

\* for (let i = 0; i < count; i++) { ... }, slots i..count (1-based)
RECURSIVE AnimateSlots(_, _, _, _, _, _)
AnimateSlots(i, mesh, d, isMorphing, progress, fc) ==
    IF i > mesh.count THEN [mesh |-> mesh, dummy |-> d]
    ELSE LET cur == mesh.matrix[i]
         IN IF i <= Len(targetVoxels)
            THEN LET target == targetVoxels[i]
                     m == MoveToTarget(cur, target, isMorphing, fc)
                     c == Crossfade(mesh.color[i], target, isMorphing, progress)
                 IN AnimateSlots(i + 1,
                        [mesh EXCEPT !.matrix[i] = m, !.color[i] = c],
                        m, isMorphing, progress, fc)
            ELSE LET m == ScaleDown(cur, d)
                 IN AnimateSlots(i + 1, [mesh EXCEPT !.matrix[i] = m],
                        m, isMorphing, progress, fc)

\* the clamp reached one step late
SaturatedLate(p) == p > One + MorphIncrement

\* if (this.morphProgress >= 1)
Saturated(p) == p >= One

\* onStateChange on every frame
StableNoticeAlways(done) == <<StateEvent("STABLE")>>

\* the listener left out of the saturation branch
StableNoticeNever(done) == <<>>

\* this.onStateChange(this.state) inside the saturation branch
StableNotice(done) == IF done THEN <<StateEvent("STABLE")>> ELSE <<>>

\* window.requestAnimationFrame mutated: the callback is not kept
requestNothing(pending, id) == pending

\* window.requestAnimationFrame(callback), returning the handle id
requestAnimationFrame(pending, id) == pending \cup {id}

\* window.cancelAnimationFrame mutated: the callback stays with the browser
cancelNothing(pending, id) == pending

\* window.cancelAnimationFrame(id)
cancelAnimationFrame(pending, id) == pending \ {id}

\* the browser mutated: it calls a frame callback whether or not it holds it
HeldAlways(id) == TRUE

\* the browser calls a frame callback only while it holds its handle
Held(id) == id \in scheduled

\* cleanup(), with the browser holding the callbacks in pending:
\* cancelAnimationFrame(this.animationId), then removeChild, which throws
\* NotFoundError when the canvas is no longer in the container, and then,
\* if it did not throw, renderer.dispose()
cleanup(pending, id) ==
    /\ cleanups' = cleanups + 1
    /\ scheduled' = cancelAnimationFrame(pending, id)
    /\ mounted' = FALSE
    /\ disposed' = (disposed \/ mounted)
    /\ thrown' = IF mounted THEN thrown ELSE thrown + 1

\* one frame.  listenerCleans: the onStateChange listener calls cleanup()
animate(listenerCleans) ==
    /\ Held(animationId)
    /\ state = "REBUILDING" \/ idleTicks < MaxIdle
    /\ lastOp' = "tick"
    /\ animationId' = animationId + 1
    /\ frameCount' = frameCount + 1
    /\ LET morphing == instanceMesh.alloc /\ state = "REBUILDING"
           p == IF morphing THEN morphProgress + MorphIncrement
                ELSE morphProgress
           done == morphing /\ Saturated(p)
           newState == IF done THEN "STABLE" ELSE state
           newProgress == IF done THEN One ELSE p
           r == AnimateSlots(1, instanceMesh, dummy,
                             newState = "REBUILDING", newProgress,
                             frameCount + 1)
           pending == requestAnimationFrame(scheduled \ {animationId},
                                            animationId')
       IN /\ morphProgress' = newProgress
          /\ state' = newState
          /\ events' = StableNotice(done)
          /\ IF listenerCleans /\ events' # <<>> /\ cleanups < MaxCleanups
             THEN cleanup(pending, animationId')
             ELSE /\ scheduled' = pending
                  /\ UNCHANGED <<mounted, disposed, cleanups, thrown>>
          /\ instanceMesh' = IF instanceMesh.alloc THEN r.mesh ELSE instanceMesh
          /\ dummy' = IF instanceMesh.alloc THEN r.dummy ELSE dummy
    /\ appState' = Delivered(events', "state", appState)
    /\ voxelCount' = Delivered(events', "count", voxelCount)
    /\ ticksRebuilding' = IF state = "REBUILDING" THEN ticksRebuilding + 1
                          ELSE ticksRebuilding
    /\ idleTicks' = IF state' = "STABLE" /\ state = "STABLE"
                    THEN idleTicks + 1 ELSE 0
    /\ UNCHANGED <<targetVoxels, freshScale, requested, maxRequested,
                   maxAccepted, colorAtAccept, sizeAtAccept, calls>>
    /\ UNCHANGED <<appVars, adaptVars, sideVars>>

\* a frame of an engine whose listeners leave the engine alone
Tick == animate(FALSE)

\* a frame of an engine whose state listener may call cleanup()
TickCleaning == \E listenerCleans \in BOOLEAN : animate(listenerCleans)

\* cleanup() called between two frames
Cleanup ==
    /\ cleanups < MaxCleanups
    /\ lastOp' = "cleanup"
    /\ events' = <<>>
    /\ cleanup(scheduled, animationId)
    /\ UNCHANGED <<engineVars, frameCount, freshScale, appState, voxelCount,
                   requested, maxRequested, maxAccepted, colorAtAccept,
                   sizeAtAccept, ticksRebuilding, calls, idleTicks,
                   animationId>>
    /\ UNCHANGED <<appVars, adaptVars, sideVars>>

----------------------------------------------------------------------------
(* Adapting a payload colour (App.tsx, handleAskAI) *)

\* a string is the sequence of its characters
HexLower == <<"0", "1", "2", "3", "4", "5", "6", "7", "8", "9",
              "a", "b", "c", "d", "e", "f">>
HexUpper == <<"0", "1", "2", "3", "4", "5", "6", "7", "8", "9",
              "A", "B", "C", "D", "E", "F">>

IsHexDigit(c) == \E i \in 1..16 : HexLower[i] = c \/ HexUpper[i] = c

HexValue(c) == (CHOOSE i \in 1..16 : HexLower[i] = c \/ HexUpper[i] = c) - 1

\* str.substring(n)
Substring(str, n) == SubSeq(str, n + 1, Len(str))

RECURSIVE TrimStart(_)
TrimStart(str) ==
    IF str # <<>> /\ str[1] = " " THEN TrimStart(Tail(str)) ELSE str

\* the value of the longest prefix of hexadecimal digits, and its length
RECURSIVE HexPrefix(_, _, _)
HexPrefix(str, value, length) ==
    IF str # <<>> /\ IsHexDigit(str[1])
    THEN HexPrefix(Tail(str), 16 * value + HexValue(str[1]), length + 1)
    ELSE [value |-> value, length |-> length]

\* parseInt(str, 16): leading white space, a sign and 0x are skipped, then
\* the longest prefix of digits is read and the rest of the string ignored;
\* NaN when there is no digit
parseInt(str) ==
    LET trimmed == TrimStart(str)
        signed == trimmed # <<>> /\ trimmed[1] \in {"+", "-"}
        sign == IF signed /\ trimmed[1] = "-" THEN -1 ELSE 1
        unsigned == IF signed THEN Tail(trimmed) ELSE trimmed
        prefixed == /\ Len(unsigned) >= 2
                    /\ unsigned[1] = "0"
                    /\ unsigned[2] \in {"x", "X"}
        digits == IF prefixed THEN Substring(unsigned, 2) ELSE unsigned
        r == HexPrefix(digits, 0, 0)
    IN [nan |-> (r.length = 0), value |-> sign * r.value]

FallbackColor == 13421772

\* the color field computed from v.color
AdaptColor(colorStr) ==
    LET stripped == IF colorStr # <<>> /\ colorStr[1] = "#"
                    THEN Substring(colorStr, 1) ELSE colorStr
        colorInt == parseInt(stripped)
    IN IF colorInt.nan THEN FallbackColor ELSE colorInt.value

\* the characters and the lengths of the colour strings explored
ColorChars == {"#", "-", "0", "x", "1", "f", "z"}
MaxColorLen == 3

ColorStrings ==
    UNION {[1..n -> ColorChars] : n \in 0..MaxColorLen}

NoChapter == [set |-> FALSE, generator |-> "", data |-> <<>>]

NoPayload == [text |-> "none", hasVoxels |-> FALSE, voxels |-> <<>>]

----------------------------------------------------------------------------
(* The engine *)

\* the constructor: fields at their initialisers, and this.animate() has
\* run its first frame on the missing mesh
InitEngine ==
    /\ state = "STABLE"
    /\ morphProgress = One
    /\ targetVoxels = <<>>
    /\ instanceMesh = NoMesh
    /\ dummy = Matrix(<<0, 0, 0>>, One)
    /\ frameCount = 1
    /\ freshScale \in {0, One}
    /\ appState = "STABLE"
    /\ voxelCount = 0
    /\ events = <<>>
    /\ lastOp = "new"
    /\ requested = <<>>
    /\ maxRequested = 0
    /\ maxAccepted = 0
    /\ colorAtAccept = <<>>
    /\ sizeAtAccept = 0
    /\ ticksRebuilding = 0
    /\ calls = 0
    /\ idleTicks = 0
    /\ animationId = 1
    /\ scheduled = {1}
    /\ mounted = TRUE
    /\ disposed = FALSE
    /\ cleanups = 0
    /\ thrown = 0

\* App's state at its first render
InitApp ==
    /\ currentChapterIndex = 0
    /\ aiChapter = NoChapter
    /\ isGenerating = FALSE
    /\ pendingAI = 0
    /\ asks = 0
    /\ alerts = 0
    /\ payload = NoPayload

\* useState of the parametric App
InitSim ==
    simParams = [grindSize |-> 500, temperature |-> 600, ratio |-> 500,
                 agitation |-> 300, time |-> 100, shape |-> "CONE",
                 viewMode |-> "REALITY"]

\* PromptModal at its first render, closed, under a parent of either kind
InitModal ==
    /\ isOpen = FALSE
    /\ prompt = ""
    /\ isLoading = FALSE
    /\ session = 0
    /\ inFlight = {}
    /\ submits = 0

\* new Map()
InitGen ==
    /\ map = <<>>
    /\ placed = <<>>

Init ==
    /\ InitEngine
    /\ InitApp
    /\ vColor = <<>>
    /\ adaptedColor = 0
    /\ InitSim
    /\ InitModal
    /\ closesOnSubmit = TRUE
    /\ InitGen

\* a transitionTo call made on the engine alone
Call ==
    /\ \E data \in Clouds : transitionTo(data)
    /\ UNCHANGED <<appVars, adaptVars, sideVars>>

Next == Tick \/ Call

Spec == Init /\ [][Next]_vars

----------------------------------------------------------------------------
(* The chapter application (App.tsx) *)

\* the clouds the scene generators build, each stood for by a small cloud
\* of its own
Generators ==
    [V60Setup |-> CloudB,
     Equipment |-> CloudA,
     GrindSize |-> <<Voxel(-2000, 0, 0, COFFEE_DARK),
                     Voxel(2000, 0, 0, COFFEE_DARK)>>,
     BloomPhase |-> <<Voxel(0, 1000, 0, WATER_STREAM)>>,
     SpiralPour |-> <<Voxel(1000, 4000, 0, WATER_STREAM),
                      Voxel(0, 0, 0, FILTER)>>]

Chapter(generator) == [set |-> TRUE, generator |-> generator, data |-> <<>>]

\* CHAPTERS[i] of the source is CHAPTERS[i + 1] here
CHAPTERS ==
    <<Chapter("V60Setup"), Chapter("Equipment"), Chapter("GrindSize"),
      Chapter("BloomPhase"), Chapter("SpiralPour")>>

\* a step of the application that does not call transitionTo
NoTransition(op) ==
    /\ lastOp' = op
    /\ events' = <<>>
    /\ UNCHANGED <<engineVars, frameCount, freshScale, appState, voxelCount,
                   requested, maxRequested, maxAccepted, colorAtAccept,
                   sizeAtAccept, ticksRebuilding, calls, idleTicks,
                   lifeVars>>

\* the body of loadChapter once chapter has been looked up
loadChapterOf(chapter, index) ==
    /\ IF chapter.generator # "AI"
       THEN IF chapter.generator \in DOMAIN Generators
            THEN transitionTo(Generators[chapter.generator])
            ELSE NoTransition("loadChapter")
       ELSE IF aiChapter.set
            THEN transitionTo(aiChapter.data)
            ELSE NoTransition("loadChapter")
    /\ currentChapterIndex' = index
    /\ UNCHANGED <<aiChapter, isGenerating, pendingAI, asks, alerts, payload,
                   adaptVars, sideVars>>

loadChapter(index) ==
    loadChapterOf(IF index = -1 /\ aiChapter.set THEN aiChapter
                  ELSE CHAPTERS[index + 1],
                  index)

\* the effect run at mount, after the engine is constructed
MountEffect ==
    /\ lastOp = "new"
    /\ loadChapter(0)

\* onNextChapter; the button is disabled on the last chapter shown
NextChapter ==
    /\ lastOp # "new"
    /\ IF currentChapterIndex = -1
       THEN /\ ~aiChapter.set
            /\ loadChapter(0)
       ELSE /\ currentChapterIndex # Len(CHAPTERS) - 1
            /\ LET next == Min(currentChapterIndex + 1, Len(CHAPTERS) - 1)
               IN /\ next # currentChapterIndex
                  /\ loadChapter(next)

\* onPrevChapter; the button is disabled on the first chapter
PrevChapter ==
    /\ lastOp # "new"
    /\ IF currentChapterIndex = -1
       THEN loadChapter(Len(CHAPTERS) - 1)
       ELSE /\ currentChapterIndex # 0
            /\ LET prev == Max(currentChapterIndex - 1, 0)
               IN /\ prev # currentChapterIndex
                  /\ loadChapter(prev)

\* handleAskAI up to its await, with an API key set.  It closes the modal;
\* the overlay's button opens it again, which clears PromptModal's
\* isLoading, so that a prompt can be submitted while a request is pending
AskAI ==
    /\ lastOp # "new"
    /\ asks < MaxAsks
    /\ asks' = asks + 1
    /\ pendingAI' = pendingAI + 1
    /\ isGenerating' = TRUE
    /\ NoTransition("askAI")
    /\ UNCHANGED <<currentChapterIndex, aiChapter, alerts, payload,
                   adaptVars, sideVars>>

Entry(x, y, z, type, str) ==
    [x |-> x, y |-> y, z |-> z, color |-> [type |-> type, str |-> str]]

Json(hasVoxels, voxels) ==
    [text |-> "json", hasVoxels |-> hasVoxels, voxels |-> voxels]

\* what the await of generateContent ends in: a rejection ("error"), a
\* response without text ("empty"), a text that is not JSON ("garbage"),
\* or JSON: without voxels, with voxels whose colours are strings, with a
\* colour missing, with a colour that is a number
Payloads ==
    {[text |-> "error", hasVoxels |-> FALSE, voxels |-> <<>>],
     [text |-> "empty", hasVoxels |-> FALSE, voxels |-> <<>>],
     [text |-> "garbage", hasVoxels |-> FALSE, voxels |-> <<>>],
     Json(FALSE, <<>>),
     Json(TRUE, <<>>),
     Json(TRUE, <<Entry(1000, 0, 0, "string", <<"#", "f", "f">>),
                  Entry(0, 2000, 0, "string", <<"z", "z">>)>>),
     Json(TRUE, <<Entry(1000, 0, 0, "string", <<"f", "f">>),
                  Entry(0, 2000, 0, "missing", <<>>)>>),
     Json(TRUE, <<Entry(1000, 0, 0, "number", <<>>)>>)}

\* the try block throws: the request failed, JSON.parse threw, data.voxels
\* has no map, or colorStr has no startsWith
Throws(p) ==
    \/ p.text \in {"error", "garbage"}
    \/ /\ p.text = "json"
       /\ \/ ~p.hasVoxels
          \/ \E i \in 1..Len(p.voxels) : p.voxels[i].color.type # "string"

\* data.voxels.map(...)
VoxelData(voxels) ==
    [i \in 1..Len(voxels) |->
        Voxel(voxels[i].x, voxels[i].y, voxels[i].z,
              AdaptColor(voxels[i].color.str))]

\* the catch block: console.error and one alert
Caught == alerts + 1

\* handleAskAI from the end of its await to its end
Respond(p) ==
    /\ pendingAI > 0
    /\ pendingAI' = pendingAI - 1
    /\ payload' = p
    /\ isGenerating' = FALSE
    /\ UNCHANGED <<asks, adaptVars, sideVars>>
    /\ IF Throws(p)
       THEN /\ alerts' = Caught
            /\ NoTransition("response")
            /\ UNCHANGED <<currentChapterIndex, aiChapter>>
       ELSE IF p.text = "empty"
       THEN /\ NoTransition("response")
            /\ UNCHANGED <<currentChapterIndex, aiChapter, alerts>>
       ELSE /\ aiChapter' = [set |-> TRUE, generator |-> "AI",
                             data |-> VoxelData(p.voxels)]
            /\ transitionTo(VoxelData(p.voxels))
            /\ currentChapterIndex' = -1
            /\ UNCHANGED alerts

Response == \E p \in Payloads : Respond(p)

\* effectiveIndex mutated: the state passed on as it is
effectiveIndexRaw == currentChapterIndex

\* the index handed to UIOverlay
effectiveIndex ==
    IF currentChapterIndex = -1 THEN Len(CHAPTERS) ELSE currentChapterIndex

\* the chapter list handed to UIOverlay
effectiveChapters ==
    IF currentChapterIndex = -1 /\ aiChapter.set
    THEN Append(CHAPTERS, aiChapter)
    ELSE CHAPTERS

\* the one prompt submitted while the chapters are browsed (prompts that
\* overlap are explored in SpecAsk)
AskAIOnce == asks = 0 /\ AskAI

\* a frame of the mounted application: the engine is constructed and the
\* first chapter loaded in one effect, with no frame in between
AppTick == lastOp # "new" /\ Tick

NextApp ==
    MountEffect \/ NextChapter \/ PrevChapter \/ AskAIOnce \/ Response
       \/ AppTick

NextAsk == MountEffect \/ AskAI \/ Response \/ AppTick

\* the AI requests of the chapter application, the first chapter showing
SpecAsk == Init /\ [][NextAsk]_vars

\* the application driving the engine
SpecApp == Init /\ [][NextApp]_vars

\* the effect run at mount, were the generator of the first chapter not a
\* key of Generators
MountUnlisted ==
    /\ lastOp = "new"
    /\ loadChapterOf(Chapter("Unlisted"), 0)

NextCatalog ==
    MountEffect \/ MountUnlisted \/ NextChapter \/ PrevChapter \/ AppTick

\* the chapters loaded one after the other, an unlisted one among them
SpecCatalog == Init /\ [][NextCatalog]_vars

----------------------------------------------------------------------------
(* The parametric App (src/unnamed/part_001) *)

\* {...prev, ...p}
Merge(prev, p) ==
    [k \in DOMAIN prev \cup DOMAIN p |->
        IF k \in DOMAIN p THEN p[k] ELSE prev[k]]

\* the range inputs: min 0, max 1; the ends and the middle are explored
SliderKeys == {"grindSize", "temperature", "ratio", "agitation", "time"}
SliderValues == {0, One \div 2, One}

\* onSimParamChange({ key: parseFloat(e.target.value) })
SliderChange ==
    \E k \in SliderKeys, v \in SliderValues :
       /\ simParams[k] # v
       /\ simParams' = Merge(simParams, [j \in {k} |-> v])
       /\ UNCHANGED <<coreVars, modalVars, genVars>>

\* the three view mode buttons
ViewModeButtons == {"REALITY", "SATURATION", "FLOW_VELOCITY"}

\* onSimParamChange({ viewMode: mode.id })
ViewModeClick ==
    \E mode \in ViewModeButtons :
       /\ simParams.viewMode # mode
       /\ simParams' = Merge(simParams, [j \in {"viewMode"} |-> mode])
       /\ UNCHANGED <<coreVars, modalVars, genVars>>

\* the objects JSON.parse may give back for the text of a response: the
\* empty object of a response without text, values inside their ranges,
\* values outside, and keys of other types
ParsedParams ==
    {<<>>,
     [j \in {"grindSize"} |-> One \div 4],
     [j \in {"grindSize", "time"} |-> 3 * (One \div 2)],
     [j \in {"temperature"} |-> 0 - One],
     [j \in {"shape"} |-> "SPHERE"],
     [j \in {"viewMode"} |-> "EXTRACTION"],
     [j \in {"viewMode"} |-> "XRAY"]}

\* handleAIPrompt after its await: setSimParams(prev => ({...prev,
\* ...params})); a text without JSON throws and is caught
AIParams ==
    /\ submits < MaxPrompts
    /\ submits' = submits + 1
    /\ \/ \E params \in ParsedParams : simParams' = Merge(simParams, params)
       \/ UNCHANGED simParams
    /\ UNCHANGED <<coreVars, isOpen, prompt, isLoading, closesOnSubmit,
                   session, inFlight, genVars>>

NextSim == SliderChange \/ ViewModeClick \/ AIParams

\* the simulation parameters under the controls and the AI responses
SpecSim == Init /\ [][NextSim]_vars

----------------------------------------------------------------------------
(* PromptModal (src/unnamed/part_003) *)

\* prompt.trim() is empty
Blank(p) == p \in {"", " "}

\* handleSubmit mutated: it returns early on a blank prompt only
ReturnsEarlyOnBlank(p, loading) == Blank(p)

\* if (!prompt.trim() || isLoading) return;
ReturnsEarly(p, loading) == Blank(p) \/ loading

\* the parent sets isOpen; the effect on isOpen clears prompt and isLoading
Open ==
    /\ ~isOpen
    /\ session < MaxSessions
    /\ session' = session + 1
    /\ isOpen' = TRUE
    /\ prompt' = ""
    /\ isLoading' = FALSE
    /\ UNCHANGED <<closesOnSubmit, inFlight, submits>>
    /\ UNCHANGED <<coreVars, simParams, genVars>>

\* onChange of the textarea, which is disabled while loading
Type ==
    /\ isOpen
    /\ ~isLoading
    /\ \E p \in {"", " ", "text"} :
          /\ p # prompt
          /\ prompt' = p
    /\ UNCHANGED <<isOpen, isLoading, closesOnSubmit, session, inFlight,
                   submits>>
    /\ UNCHANGED <<coreVars, simParams, genVars>>

\* the close button: onClick is onClose only while not loading
CloseClick ==
    /\ isOpen
    /\ ~isLoading
    /\ isOpen' = FALSE
    /\ UNCHANGED <<prompt, isLoading, closesOnSubmit, session, inFlight,
                   submits>>
    /\ UNCHANGED <<coreVars, simParams, genVars>>

\* handleSubmit up to its await.  onSubmit of src/App.tsx closes the modal
\* before it awaits, onSubmit of src/unnamed/part_001 leaves it open
Submit ==
    /\ isOpen
    /\ submits < MaxSubmits
    /\ submits' = submits + 1
    /\ IF ReturnsEarly(prompt, isLoading)
       THEN UNCHANGED <<isOpen, isLoading, inFlight>>
       ELSE /\ isLoading' = TRUE
            /\ inFlight' = inFlight \cup
                              {[id |-> submits', session |-> session]}
            /\ isOpen' = ~closesOnSubmit
    /\ UNCHANGED <<prompt, closesOnSubmit, session>>
    /\ UNCHANGED <<coreVars, simParams, genVars>>

\* handleSubmit after its await: onSubmit resolved (setPrompt('')) or
\* rejected (console.error), then finally setIsLoading(false).  onSubmit of
\* src/unnamed/part_001 closes the modal before it resolves with success
Settle ==
    \E f \in inFlight, outcome \in {"closed", "resolved", "rejected"} :
       /\ outcome = "closed" => ~closesOnSubmit
       /\ inFlight' = inFlight \ {f}
       /\ isLoading' = FALSE
       /\ prompt' = IF outcome = "rejected" THEN prompt ELSE ""
       /\ isOpen' = IF outcome = "closed" THEN FALSE ELSE isOpen
       /\ UNCHANGED <<closesOnSubmit, session, submits>>
       /\ UNCHANGED <<coreVars, simParams, genVars>>

InitModalSpec ==
    /\ InitEngine
    /\ InitApp
    /\ vColor = <<>>
    /\ adaptedColor = 0
    /\ InitSim
    /\ InitModal
    /\ closesOnSubmit \in BOOLEAN
    /\ InitGen

NextModal == Open \/ Type \/ CloseClick \/ Submit \/ Settle

\* the modal under either of its two parents
SpecModal == InitModalSpec /\ [][NextModal]_vars

----------------------------------------------------------------------------
(* The scene generators (src/utils/voxelGenerators.ts) *)

\* Math.round: the nearest integer, a half going up
Round(v) == ((v + One \div 2) \div One) * One

\* setBlock writing to an array instead of a Map
setBlockPush(m, x, y, z, color) ==
    Append(m, Voxel(Round(x), Round(y), Round(z), color))

\* setBlock: map.set(key, voxel) on the key of the rounded coordinates; a
\* Map keeps a key that is set again at the place of its first insertion
setBlock(m, x, y, z, color) ==
    LET v == Voxel(Round(x), Round(y), Round(z), color)
        same(i) == /\ m[i].x = v.x
                   /\ m[i].y = v.y
                   /\ m[i].z = v.z
    IN IF \E i \in 1..Len(m) : same(i)
       THEN [i \in 1..Len(m) |-> IF same(i) THEN v ELSE m[i]]
       ELSE Append(m, v)

\* the arguments of the setBlock calls explored: whole and fractional
\* coordinates, on both sides of a half and of zero
Placements ==
    {[x |-> x, y |-> y, z |-> 0, color |-> c] :
        x \in {0 - One \div 2, 0, (2 * One) \div 5, One \div 2},
        y \in {0, 3 * (One \div 2)},
        c \in {COFFEE_DARK, FILTER}}

\* one setBlock call of a generator
SetBlock ==
    /\ Len(placed) < MaxPlacements
    /\ \E p \in Placements :
          /\ map' = setBlock(map, p.x, p.y, p.z, p.color)
          /\ placed' = Append(placed, p)
    /\ UNCHANGED <<coreVars, simParams, modalVars>>

\* a generator filling its Map; Array.from(map.values()) is map
SpecGen == Init /\ [][SetBlock]_vars

\* one payload entry is adapted
Adapt ==
    /\ lastOp = "new"
    /\ lastOp' = "adapt"
    /\ adaptedColor' = AdaptColor(vColor)
    /\ UNCHANGED <<engineVars, frameCount, freshScale, appState, voxelCount,
                   events, requested, maxRequested, maxAccepted,
                   colorAtAccept, sizeAtAccept, ticksRebuilding, calls,
                   idleTicks, lifeVars, appVars, vColor, sideVars>>

InitAdapt ==
    /\ InitEngine
    /\ InitApp
    /\ vColor \in ColorStrings
    /\ adaptedColor = 0
    /\ InitSim
    /\ InitModal
    /\ closesOnSubmit = TRUE
    /\ InitGen

\* the adaptation of a colour, for every colour string explored
SpecAdapt == InitAdapt /\ [][Adapt]_vars

\* a transitionTo call on an engine that may be cleaned up
CallLifecycle == calls < MaxLifeCalls /\ Call

NextLifecycle == TickCleaning \/ CallLifecycle \/ Cleanup

\* the engine with cleanup(), called between frames or from the listener
SpecLifecycle == Init /\ [][NextLifecycle]_vars

----------------------------------------------------------------------------
(* Steps and listener calls, as the properties below read them *)

CallStep == lastOp' = "transitionTo" /\ calls' = calls + 1

TickStep == lastOp' = "tick" /\ frameCount' = frameCount + 1

Emitted(evs, e) == \E i \in 1..Len(evs) : evs[i] = e

----------------------------------------------------------------------------
(* C1: convergence *)

\* C1: after a transitionTo that moved the engine to REBUILDING, the state
\* is STABLE again once 67 = ceil(1 / 0.015) ticks have run: no state that
\* is still REBUILDING has 67 ticks of its transition behind it.
C1_ConvergesWithin67Ticks ==
    /\ 67 * MorphIncrement >= One
    /\ 66 * MorphIncrement < One
    /\ state = "REBUILDING" => ticksRebuilding < 67

\* a transition that settled on its 67th tick
C1_Witness ==
    /\ state = "STABLE"
    /\ lastOp = "tick"
    /\ ticksRebuilding = 67
    /\ events = <<StateEvent("STABLE")>>

----------------------------------------------------------------------------
(* C2: transitionTo while STABLE *)

----------------------------------------------------------------------------
(* C3: transitionTo while REBUILDING *)

\* C3: a transitionTo made while REBUILDING changes nothing of the engine
\* (target, morphProgress, state, the pool and every slot) and calls no
\* listener; any other transitionTo replaces the target by the whole new
\* cloud.
C3_RejectedOrApplied ==
    [][CallStep =>
          IF state = "REBUILDING"
          THEN /\ UNCHANGED engineVars
               /\ events' = <<>>
               /\ UNCHANGED <<appState, voxelCount>>
          ELSE targetVoxels' = requested']_vars

\* a call with another cloud, rejected in flight
C3_Witness ==
    /\ lastOp = "transitionTo"
    /\ state = "REBUILDING"
    /\ events = <<>>
    /\ requested # targetVoxels
    /\ morphProgress > 0

----------------------------------------------------------------------------
(* C4: the count listener *)

\* C4 as stated: every transitionTo call, in any state, calls the count
\* listener with |cloud|.
C4_Original ==
    [][CallStep => Emitted(events', CountEvent(Len(requested')))]_vars

\* C4, amended: every transitionTo call made while STABLE calls the count
\* listener with |cloud| before it returns; a call made while REBUILDING
\* does not call the count listener.
C4_CountNotified ==
    [][CallStep =>
          IF state = "STABLE"
          THEN /\ Emitted(events', CountEvent(Len(requested')))
               /\ voxelCount' = Len(requested')
          ELSE \A i \in 1..Len(events') : events'[i].kind # "count"]_vars

\* the count listener called with 2 by a retargeting call
C4_Witness ==
    /\ lastOp = "transitionTo"
    /\ state = "REBUILDING"
    /\ Emitted(events, CountEvent(2))
    /\ voxelCount = 2

----------------------------------------------------------------------------
(* C5: the target is the last cloud requested *)

\* C5 as stated: at every moment the target cloud is the cloud passed to
\* the most recent transitionTo call (so that a burst of calls ends on the
\* cloud of its last call).
C5_TargetIsLastRequested == targetVoxels = requested

----------------------------------------------------------------------------
(* C6: capacity *)

\* C6 as stated: the pool capacity is at least the size of the largest
\* cloud passed to any transitionTo call so far, and never decreases.
C6_Original ==
    [][/\ instanceMesh'.count >= maxRequested'
       /\ instanceMesh'.count >= instanceMesh.count]_vars

\* C6, amended: the pool capacity is at least the size of the largest cloud
\* passed to any transitionTo call that was not rejected (made while
\* STABLE), and never decreases from one state to the next.
C6_CapacityMonotone ==
    [][/\ instanceMesh'.count >= maxAccepted'
       /\ instanceMesh'.count >= Len(targetVoxels')
       /\ instanceMesh'.count >= instanceMesh.count]_vars

\* a pool kept at 2 instances under a smaller target
C6_Witness ==
    /\ instanceMesh.count = 2
    /\ maxAccepted = 2
    /\ Len(targetVoxels) < 2
    /\ state = "REBUILDING"

----------------------------------------------------------------------------
(* C7: morphProgress *)

\* C7: morphProgress lies in [0, 1]; a step taken while REBUILDING never
\* decreases it; and it becomes 0 only by a transitionTo call made while
\* STABLE that moves the state to REBUILDING.
C7_ProgressBounds ==
    [][/\ morphProgress \in 0..One
       /\ morphProgress' \in 0..One
       /\ state = "REBUILDING" => morphProgress' >= morphProgress
       /\ (morphProgress' = 0 /\ morphProgress # 0) =>
             /\ CallStep
             /\ state = "STABLE"
             /\ state' = "REBUILDING"]_vars

\* a transition half way, progress strictly between 0 and 1
C7_Witness ==
    /\ state = "REBUILDING"
    /\ lastOp = "tick"
    /\ morphProgress > CrossfadeThreshold
    /\ morphProgress < One

----------------------------------------------------------------------------
(* C8: order of the notifications *)

----------------------------------------------------------------------------
(* C9: colour before the crossfade threshold *)

\* C9 as stated: during a transition, until morphProgress has passed 0.5,
\* every slot under the target keeps the colour it had when the transition
\* was accepted, whether or not the transition grew the pool.
C9_ColourKeptUntilCrossfade ==
    (state = "REBUILDING" /\ morphProgress <= CrossfadeThreshold) =>
        \A i \in 1..Min(Len(targetVoxels), Len(colorAtAccept)) :
            instanceMesh.color[i] = colorAtAccept[i]

----------------------------------------------------------------------------
(* C10: discrete scene swap *)

Toward(old, new, goal) == Abs(goal - new) <= Abs(goal - old)

\* matrix m1 is no farther than m0 from scale 1 and from the position of
\* particle t raised by dy
MovedToward(m0, m1, t, dy) ==
    /\ Toward(m0.pos[1], m1.pos[1], t.x)
    /\ Toward(m0.pos[2], m1.pos[2], t.y + dy)
    /\ Toward(m0.pos[3], m1.pos[3], t.z)
    /\ Toward(m0.scale, m1.scale, One)

\* the transition in flight, or the last one settled, went from a scene of
\* N_A > 0 particles to a larger one
InSwap == sizeAtAccept > 0 /\ Len(targetVoxels) > sizeAtAccept

SwapAccepted ==
    (CallStep /\ state = "STABLE" /\ Len(targetVoxels) > 0
              /\ Len(requested') > Len(targetVoxels)) =>
        /\ voxelCount' = Len(requested')
        /\ appState' = "REBUILDING"
        /\ instanceMesh'.count >= Len(requested')

SwapSettled ==
    (TickStep /\ InSwap /\ ticksRebuilding' = 67) =>
        /\ appState' = "STABLE"
        /\ \A i \in 1..Len(targetVoxels) :
              instanceMesh'.color[i] = targetVoxels[i].color

\* C10 as stated: after the call the listeners report N_B and REBUILDING
\* and the capacity is at least N_B; after 67 ticks the state listener
\* reports STABLE, every slot under the target has the target's colour, and
\* on every one of these ticks it moved toward scale 1 and the target's
\* position.
C10_Original ==
    [][/\ SwapAccepted
       /\ SwapSettled
       /\ (TickStep /\ InSwap /\ state = "REBUILDING") =>
             \A i \in 1..Len(targetVoxels) :
                MovedToward(instanceMesh.matrix[i], instanceMesh'.matrix[i],
                            targetVoxels[i], 0)]_vars

\* C10, amended: as stated, except that only the ticks that leave the
\* engine REBUILDING (the first 66) move a slot toward the target's
\* position; on the 67th tick, which settles the transition, the slot
\* moves toward the target's position displaced vertically by the idle
\* float of that frame (at most 0.05).
C10_SceneSwap ==
    [][/\ SwapAccepted
       /\ SwapSettled
       /\ (TickStep /\ InSwap /\ state = "REBUILDING") =>
             \A i \in 1..Len(targetVoxels) :
                /\ MovedToward(instanceMesh.matrix[i],
                      instanceMesh'.matrix[i], targetVoxels[i],
                      IF state' = "REBUILDING" THEN 0
                      ELSE IdleFloat(frameCount', targetVoxels[i].x))
                /\ Abs(IdleFloat(frameCount', targetVoxels[i].x))
                      <= FloatAmplitude]_vars

\* a swap from 1 particle to 2, settled, both slots in the target's colours
C10_Witness ==
    /\ InSwap
    /\ sizeAtAccept = 1
    /\ ticksRebuilding = 67
    /\ appState = "STABLE"
    /\ instanceMesh.count = 2
    /\ \A i \in 1..2 : instanceMesh.color[i] = targetVoxels[i].color

----------------------------------------------------------------------------
(* C11: orphaned slots shrink *)

\* C11: on every tick, in either state, the scale of every slot past the
\* target (|targetVoxels| <= i < capacity) goes a fifth of the way to zero
\* (to the thousandth) and never increases; 31 ticks after the transition
\* that orphaned it was accepted, it is within 0.005 of zero.
C11_OrphanShrink ==
    [][TickStep =>
          \A i \in 1..instanceMesh.count :
             i > Len(targetVoxels) =>
                LET s0 == instanceMesh.matrix[i].scale
                    s1 == instanceMesh'.matrix[i].scale
                IN /\ 0 <= s1 /\ s1 <= s0
                   /\ 5 * (s0 - s1) <= s0
                   /\ 5 * (s0 - s1) > s0 - 5
                   /\ ticksRebuilding' >= 31 => s1 <= 5]_vars

\* an orphaned slot shrunk to nothing, on an idle frame of a STABLE engine
C11_Witness ==
    /\ state = "STABLE"
    /\ lastOp = "tick"
    /\ idleTicks = 1
    /\ instanceMesh.count = 2
    /\ Len(targetVoxels) = 1
    /\ instanceMesh.matrix[2].scale <= 5

----------------------------------------------------------------------------
(* C12: orphaned slots stay in place *)

\* C12 as stated: a tick leaves the position of every orphaned slot
\* (i >= |targetVoxels|) exactly where it was; only its scale changes.
C12_OrphanPositionKept ==
    [][TickStep =>
          \A i \in 1..instanceMesh.count :
             i > Len(targetVoxels) =>
                instanceMesh'.matrix[i].pos = instanceMesh.matrix[i].pos]_vars

----------------------------------------------------------------------------
(* C13: the pool is written by tick only *)

\* C13 as stated: no transitionTo call changes the position, scale or
\* colour of an existing slot, and no slot is ever placed directly on its
\* target's position.
C13_PoolWrittenByTickOnly ==
    [][CallStep =>
          \A i \in 1..instanceMesh'.count :
             IF i <= instanceMesh.count
             THEN /\ instanceMesh'.matrix[i] = instanceMesh.matrix[i]
                  /\ instanceMesh'.color[i] = instanceMesh.color[i]
             ELSE i <= Len(targetVoxels') =>
                     instanceMesh'.matrix[i].pos #
                        <<targetVoxels'[i].x, targetVoxels'[i].y,
                          targetVoxels'[i].z>>]_vars

----------------------------------------------------------------------------
(* C20: when the buffer is replaced *)

\* C20 as stated: the InstancedMesh is replaced only by a transitionTo whose
\* cloud is larger than the current capacity, and every replacement
\* strictly increases the capacity (so a call with |cloud| <= capacity, an
\* empty cloud on an empty pool included, never reallocates).
C20_ReplacedOnlyToGrow ==
    [][instanceMesh'.gen # instanceMesh.gen =>
          /\ CallStep
          /\ Len(requested') > instanceMesh.count
          /\ instanceMesh'.count > instanceMesh.count]_vars

----------------------------------------------------------------------------
(* C14, C15: cleanup *)

CleanupStep == lastOp' = "cleanup" /\ cleanups' = cleanups + 1

\* C14: once cleanup() has been called, between two frames or from the
\* listener a frame invokes, no further frame runs and the browser holds
\* no frame callback of the engine.
C14_NoTickAfterCleanup ==
    [][/\ cleanups >= 1 => ~TickStep
       /\ cleanups' >= 1 => scheduled' = {}]_vars

\* cleanup() was called by the listener of the frame that settled: the
\* frame asked for at the head of that tick has been cancelled
C14_Witness ==
    /\ cleanups = 1
    /\ lastOp = "tick"
    /\ events = <<StateEvent("STABLE")>>
    /\ state = "STABLE"
    /\ disposed
    /\ animationId = frameCount
    /\ scheduled = {}

\* C15: a cleanup() after the first one throws and changes nothing, and
\* neither it nor a transitionTo made after a cleanup asks for a frame or
\* is followed by one.
C15_SecondCleanupInert ==
    [][/\ (CleanupStep /\ cleanups >= 1) =>
             /\ thrown' = thrown + 1
             /\ UNCHANGED <<engineVars, frameCount, animationId, scheduled,
                            mounted, disposed>>
       /\ (CallStep /\ cleanups >= 1) =>
             UNCHANGED <<frameCount, animationId, scheduled, disposed>>
       /\ (cleanups >= 2 \/ (cleanups >= 1 /\ lastOp = "transitionTo")) =>
             ~TickStep]_vars

\* two cleanups, the second one thrown, then an accepted transitionTo
C15_Witness ==
    /\ cleanups = 2
    /\ thrown = 1
    /\ disposed
    /\ lastOp = "transitionTo"
    /\ state = "REBUILDING"
    /\ scheduled = {}

----------------------------------------------------------------------------
(* C16: colour fallback *)

\* a hexadecimal colour, with or without '#': digits only, and at least one
ValidHex(colorStr) ==
    LET stripped == IF colorStr # <<>> /\ colorStr[1] = "#"
                    THEN Substring(colorStr, 1) ELSE colorStr
    IN /\ stripped # <<>>
       /\ \A i \in 1..Len(stripped) : IsHexDigit(stripped[i])

\* C16 as stated: a colour string that is not a hexadecimal colour is
\* adapted to the fallback 0xCCCCCC, and every string is adapted to an
\* integer.
C16_InvalidHexFallsBack ==
    lastOp = "adapt" =>
       /\ adaptedColor \in Int
       /\ ~ValidHex(vColor) => adaptedColor = FallbackColor

----------------------------------------------------------------------------
(* C17: malformed payloads *)

\* the payload is there and is not what was asked for: no JSON in it (an
\* empty text included), no voxels array, or a colour that is no string
Malformed(p) ==
    \/ p.text \in {"empty", "garbage"}
    \/ /\ p.text = "json"
       /\ \/ ~p.hasVoxels
          \/ \E i \in 1..Len(p.voxels) : p.voxels[i].color.type # "string"

RespondStep == pendingAI' = pendingAI - 1

\* C17 as stated: when the payload received is malformed, alert is called
\* exactly once, transitionTo is not called and the engine is left as it
\* was.
C17_MalformedReportedOnce ==
    [][(RespondStep /\ Malformed(payload')) =>
          /\ alerts' = alerts + 1
          /\ ~CallStep
          /\ UNCHANGED <<engineVars, calls>>]_vars

----------------------------------------------------------------------------
(* C19: unknown scene *)

----------------------------------------------------------------------------
(* C22: DISMANTLING is never used *)

\* C22: whatever the constructor, transitionTo (loadInitialModel
\* included), the frames and cleanup have done, the engine's state is STABLE
\* or REBUILDING, and so is every state a listener was notified of.
C22_NeverDismantling ==
    /\ state \in {"STABLE", "REBUILDING"}
    /\ appState \in {"STABLE", "REBUILDING"}
    /\ \A i \in 1..Len(events) :
          events[i].kind = "state" => events[i].st \in {"STABLE", "REBUILDING"}

\* the first load has notified STABLE, the transition in progress has
\* notified REBUILDING, and cleanup has been called
C22_Witness ==
    /\ cleanups = 1
    /\ calls = 2
    /\ state = "REBUILDING"
    /\ appState = "REBUILDING"
    /\ frameCount > 1

----------------------------------------------------------------------------
(* C24: the listeners' view *)

\* C24: after every transitionTo call and every tick, the state last
\* delivered to the state listener is the engine's state and the count last
\* delivered to the count listener is the size of the target cloud.
C24_ViewMatchesEngine ==
    /\ appState = state
    /\ voxelCount = Len(targetVoxels)

\* the view after a transition to a cloud of another size has settled
C24_Witness ==
    /\ lastOp = "tick"
    /\ events = <<StateEvent("STABLE")>>
    /\ appState = "STABLE"
    /\ voxelCount = 1
    /\ sizeAtAccept = 2

----------------------------------------------------------------------------
(* C25: state and progress *)

\* C25: the state is STABLE exactly when morphProgress is 1 and REBUILDING
\* exactly when morphProgress is below 1.
C25_StableIffSaturated ==
    /\ state = "STABLE" <=> morphProgress = One
    /\ state = "REBUILDING" <=> morphProgress < One

\* the tick on which a transition to the empty cloud saturates
C25_Witness ==
    /\ state = "STABLE"
    /\ morphProgress = One
    /\ lastOp = "tick"
    /\ events = <<StateEvent("STABLE")>>
    /\ targetVoxels = <<>>
    /\ instanceMesh.count > 0

----------------------------------------------------------------------------
(* C28: one pending frame *)

\* C28: from construction until cleanup is called, the browser holds
\* exactly one frame callback of the engine and animationId is its handle;
\* each frame runs on that handle, and the first cleanup cancels it.
C28_OnePendingFrame ==
    [][/\ cleanups = 0 => scheduled = {animationId}
       /\ TickStep => /\ animationId \in scheduled
                      /\ animationId' \notin scheduled
                      /\ cleanups' = 0 => scheduled' = {animationId'}
       /\ (CleanupStep /\ cleanups = 0) =>
             /\ animationId \in scheduled
             /\ scheduled' = {}]_vars

\* the loop still has its one frame pending after a whole transition, and
\* cleanup then cancels it
C28_Witness ==
    /\ cleanups = 1
    /\ lastOp = "cleanup"
    /\ thrown = 0
    /\ animationId = frameCount
    /\ frameCount > 60
    /\ scheduled = {}

----------------------------------------------------------------------------
(* C21: the simulation parameters stay in their data model *)

\* C21 as stated: after any slider changes, view mode clicks and AI
\* responses, the five scalars are in [0, 1], shape is CONE or FLAT,
\* viewMode is one of the four view modes, and there is no other key.
C21_ParamsInDataModel ==
    /\ DOMAIN simParams = SliderKeys \cup {"shape", "viewMode"}
    /\ \A k \in SliderKeys : simParams[k] \in 0..One
    /\ simParams.shape \in {"CONE", "FLAT"}
    /\ simParams.viewMode \in
          {"REALITY", "SATURATION", "EXTRACTION", "FLOW_VELOCITY"}

----------------------------------------------------------------------------
(* C27: isGenerating *)

\* C27 as stated: isGenerating is true exactly when at least one AI request
\* is in flight.
C27_GeneratingIffInFlight == isGenerating <=> (pendingAI > 0)

----------------------------------------------------------------------------
(* C23: the chapter shown and the cloud animated *)

\* the cloud of the chapter the overlay shows
ShownCloud ==
    IF currentChapterIndex = -1 THEN aiChapter.data
    ELSE Generators[CHAPTERS[currentChapterIndex + 1].generator]

\* C23 as stated: once the first chapter is loaded, the chapter shown is
\* the one whose cloud is the engine's target, after every click, AI
\* response and tick.
C23_ShownChapterIsTarget ==
    lastOp # "new" => targetVoxels = ShownCloud

----------------------------------------------------------------------------
(* C26: the chapter index *)

----------------------------------------------------------------------------
(* C29: the prompt modal *)

SubmitStep == submits' = submits + 1

SettleStep == inFlight' # inFlight /\ inFlight' \subseteq inFlight

\* C29: no two onSubmit calls made in one open session are in flight
\* together; a submit made while loading, or with an empty or blank prompt,
\* starts nothing; while loading the modal is closed only by the parent, at
\* the submission or when it settles; and the submission that settles
\* clears isLoading.
C29_OneSubmissionPerSession ==
    [][/\ \A f, g \in inFlight' : f.session = g.session => f = g
       /\ (SubmitStep /\ (isLoading \/ Blank(prompt))) =>
             UNCHANGED <<inFlight, isOpen, isLoading>>
       /\ (isOpen /\ isLoading /\ ~isOpen') => SettleStep
       /\ SettleStep => ~isLoading']_vars

\* under the parent that leaves the modal open, a second submit was made
\* while the first was loading, and nothing was started
C29_Witness ==
    /\ ~closesOnSubmit
    /\ isOpen
    /\ isLoading
    /\ submits = 2
    /\ inFlight = {[id |-> 1, session |-> 1]}

----------------------------------------------------------------------------
(* C30: no two particles in one cell *)

\* particle e lies in the integer cell nearest to placement p
InCellOf(e, p) ==
    /\ e.x - One \div 2 <= p.x /\ p.x < e.x + One \div 2
    /\ e.y - One \div 2 <= p.y /\ p.y < e.y + One \div 2
    /\ e.z - One \div 2 <= p.z /\ p.z < e.z + One \div 2

SameCell(e, f) == e.x = f.x /\ e.y = f.y /\ e.z = f.z

\* C30: after every setBlock call the cloud has integer coordinates and no
\* two particles in one cell; the particles already there keep their
\* places, and their colours unless they lie in the cell written; the cell
\* written holds the colour of this call, at the place of its first write.
C30_OneParticlePerCell ==
    [][placed' # placed =>
          LET p == placed'[Len(placed')]
              hit == {i \in 1..Len(map) : InCellOf(map[i], p)}
          IN /\ \A i \in 1..Len(map') :
                   /\ map'[i].x % One = 0
                   /\ map'[i].y % One = 0
                   /\ map'[i].z % One = 0
             /\ \A i, j \in 1..Len(map') :
                   SameCell(map'[i], map'[j]) => i = j
             /\ Len(map') = IF hit = {} THEN Len(map) + 1 ELSE Len(map)
             /\ \A i \in 1..Len(map) :
                   /\ SameCell(map'[i], map[i])
                   /\ i \notin hit => map'[i] = map[i]
             /\ \E i \in 1..Len(map') :
                   /\ InCellOf(map'[i], p)
                   /\ map'[i].color = p.color
                   /\ hit # {} => i \in hit]_vars

\* three placements rounded to one cell: one particle, the last colour
C30_Witness ==
    /\ Len(placed) = 3
    /\ Len(map) = 1
    /\ placed[1].x # placed[3].x
    /\ placed[1].color # placed[3].color
    /\ map[1].color = placed[3].color

====
